---- MODULE Spec2Model ----
(***************************************************************************)
(* Model of the meeting-notes plug: the date/time resolver                 *)
(* (parseDateWithFormats) and the title normalizer (sanitizeTitle) of the  *)
(* utils module, and the orchestrator meetingNote with its own copies of   *)
(* both.  Strings are sequences of one-character strings; a timestamp is   *)
(* a record of naive local calendar fields, months 1..12.                  *)
(***************************************************************************)
EXTENDS Integers, Sequences, FiniteSets, TLC

VARIABLES
    pc,          \* position of the run: "input", "resolved", "title", "sanitized", "resanitized",
                 \* "note", "noteTitle", "noteSanitized", "reresolved"
    token,       \* dateStr handed to parseDateWithFormats
    now,         \* the explicit reference instant (second argument); dayjs() for the orchestrator
    wall,        \* the wall-clock date read by dayjs(dateStr, format, true)
    parsed,      \* what parseDateWithFormats returned
    reparsed,    \* what parseDateWithFormats returned for the token built from parsed
    prefix,      \* leading part of the raw title (possibly empty)
    body,        \* rest of the raw title; the title is prefix \o body
    sanitized,   \* sanitizeTitle(title)
    resanitized, \* sanitizeTitle(sanitizeTitle(title))
    settings,    \* what readSetting("meetingNote") returns
    configErrorShown, \* the module-level latch of meetingNote.ts
    pages,       \* the space: page name |-> content
    writes,      \* the writePage calls that stored a page, with whether the page existed
    inv          \* the meetingNote invocations: position, locals and the calls made

resolverVars == <<pc, token, now, wall, parsed, reparsed, prefix, body, sanitized, resanitized>>

noteVars == <<settings, configErrorShown, pages, writes, inv>>

vars == <<pc, token, now, wall, parsed, reparsed, prefix, body, sanitized, resanitized,
          settings, configErrorShown, pages, writes, inv>>

-----------------------------------------------------------------------------
(* Characters *)

DigitChars == <<"0", "1", "2", "3", "4", "5", "6", "7", "8", "9">>

IsDigit(c) == \E i \in 1..10 : DigitChars[i] = c

DigitVal(c) == (CHOOSE i \in 1..10 : DigitChars[i] = c) - 1

LowerSeq ==
    <<"a", "b", "c", "d", "e", "f", "g", "h", "i", "j", "k", "l", "m",
      "n", "o", "p", "q", "r", "s", "t", "u", "v", "w", "x", "y", "z">>

UpperSeq ==
    <<"A", "B", "C", "D", "E", "F", "G", "H", "I", "J", "K", "L", "M",
      "N", "O", "P", "Q", "R", "S", "T", "U", "V", "W", "X", "Y", "Z">>

LowerChars == {LowerSeq[i] : i \in 1..26}

UpperChars == {UpperSeq[i] : i \in 1..26}

\* the class [a-zA-Z0-9]
IsAlnum(c) == c \in LowerChars \/ c \in UpperChars \/ IsDigit(c)

\* the class \s (the whitespace characters the model's alphabets use)
IsSpace(c) == c \in {" ", "\t", "\n"}

\* String.prototype.padStart(2, "0")
PadStart2(s) ==
    IF Len(s) >= 2 THEN s
    ELSE IF Len(s) = 1 THEN <<"0">> \o s
    ELSE <<"0", "0">>

\* s.includes(c)
Includes(s, c) == \E i \in 1..Len(s) : s[i] = c

RECURSIVE SplitFrom(_, _, _, _)
\* s.split(delims) from position i on, cur being the piece read so far
SplitFrom(s, delims, i, cur) ==
    IF i > Len(s) THEN <<cur>>
    ELSE IF s[i] \in delims THEN <<cur>> \o SplitFrom(s, delims, i + 1, <<>>)
    ELSE SplitFrom(s, delims, i + 1, Append(cur, s[i]))

\* String.prototype.split on a set of one-character delimiters
Split(s, delims) == SplitFrom(s, delims, 1, <<>>)

RECURSIVE Join(_, _)
\* Array.prototype.join
Join(parts, delim) ==
    IF Len(parts) = 0 THEN <<>>
    ELSE IF Len(parts) = 1 THEN parts[1]
    ELSE parts[1] \o <<delim>> \o Join(Tail(parts), delim)

-----------------------------------------------------------------------------
(* Calendar arithmetic of the Date object behind dayjs *)

IsLeap(y) == (y % 4 = 0 /\ y % 100 # 0) \/ y % 400 = 0

DaysInMonth(y, m) ==
    IF m = 2 THEN (IF IsLeap(y) THEN 29 ELSE 28)
    ELSE IF m \in {4, 6, 9, 11} THEN 30
    ELSE 31

Stamp(y, m, d, h, mi, s, ms) ==
    [year |-> y, month |-> m, day |-> d, hour |-> h, minute |-> mi,
     second |-> s, ms |-> ms]

RECURSIVE NormalizeDay(_, _, _)
\* Date: a month outside 1..12 carries into the year, a day past the end of
\* the month carries into the following months, a day below 1 borrows
NormalizeDay(y, m, d) ==
    IF m > 12 THEN NormalizeDay(y + 1, m - 12, d)
    ELSE IF m < 1 THEN NormalizeDay(y - 1, m + 12, d)
    ELSE IF d > DaysInMonth(y, m) THEN NormalizeDay(y, m + 1, d - DaysInMonth(y, m))
    ELSE IF d < 1 THEN
        LET pm == IF m = 1 THEN 12 ELSE m - 1
            py == IF m = 1 THEN y - 1 ELSE y
        IN NormalizeDay(py, pm, d + DaysInMonth(py, pm))
    ELSE [year |-> y, month |-> m, day |-> d]

\* floor division and modulus also for negative numerators
FloorDiv(a, b) == IF a >= 0 THEN a \div b ELSE -((b - 1 - a) \div b)

FloorMod(a, b) == a - b * FloorDiv(a, b)

\* new Date(y, m, d, h, mi, s, ms): out-of-range fields carry over
MkDate(y, m, d, h, mi, s, ms) ==
    LET hh   == h + FloorDiv(mi, 60)
        dd   == d + FloorDiv(hh, 24)
        date == NormalizeDay(y, m, dd)
    IN Stamp(date.year, date.month, date.day, FloorMod(hh, 24), FloorMod(mi, 60), s, ms)

\* the instant as one tuple, ordered as the epoch value orders instants
Before(a, b) ==
    LET ka == <<a.year, a.month, a.day, a.hour, a.minute, a.second, a.ms>>
        kb == <<b.year, b.month, b.day, b.hour, b.minute, b.second, b.ms>>
    IN \E i \in 1..7 : ka[i] < kb[i] /\ \A j \in 1..(i - 1) : ka[j] = kb[j]

\* Dayjs.isBefore(that)
IsBefore(a, b) == Before(a, b)

\* Dayjs.$set for year and month: the day is clamped to the target month
SetYearMonth(d, y, m) ==
    LET first == NormalizeDay(y, m, 1)
        dim   == DaysInMonth(first.year, first.month)
    IN [d EXCEPT !.year = first.year, !.month = first.month,
                 !.day = IF d.day < dim THEN d.day ELSE dim]

\* Dayjs.year(y)
SetYear(d, y) == SetYearMonth(d, y, d.month)

\* Dayjs.month(m)
SetMonth(d, m) == SetYearMonth(d, d.year, m)

\* Dayjs.date(n): Date.setDate, which carries a day past the month's end
SetDate(d, n) == MkDate(d.year, d.month, n, d.hour, d.minute, d.second, d.ms)

\* Dayjs.hour(h)
SetHour(d, h) == MkDate(d.year, d.month, d.day, h, d.minute, d.second, d.ms)

\* Dayjs.minute(m)
SetMinute(d, m) == MkDate(d.year, d.month, d.day, d.hour, m, d.second, d.ms)

\* Dayjs.second(s): the milliseconds are kept
SetSecond(d, s) == [d EXCEPT !.second = s]

\* Dayjs.add(n, "month")
AddMonths(d, n) == SetMonth(d, d.month + n)

\* Dayjs.subtract(n, "month")
SubtractMonths(d, n) == SetMonth(d, d.month - n)

\* Dayjs.add(n, "day")
AddDays(d, n) == SetDate(d, d.day + n)

\* Dayjs.subtract(n, "minute"): epoch arithmetic
SubtractMinutes(d, n) == MkDate(d.year, d.month, d.day, d.hour, d.minute - n, d.second, d.ms)

-----------------------------------------------------------------------------
(* The date/time resolver *)

\* the return value `undefined`
Undefined == [undefined |-> TRUE]

\* a Dayjs object wrapping an Invalid Date
InvalidDate == [invalid |-> TRUE]

\* the formats array, each format as its sequence of field tokens and
\* literal separators
formats ==
    << <<"DD", "_", "HH", "-", "mm">>,
       <<"DD", "_", "HH", ":", "mm">>,
       <<"DD", "_", "HH">>,
       <<"HH", ":", "mm">>,
       <<"HH", "-", "mm">>,
       <<"HH">> >>

FieldTokens == {"DD", "HH", "mm"}

\* format.includes("DD")
HasDay(format) == Includes(format, "DD")

\* two-digit rendering of a field by Dayjs.format
Pad2(n) == <<DigitChars[((n \div 10) % 10) + 1], DigitChars[(n % 10) + 1]>>

FieldOf(d, tok) ==
    IF tok = "DD" THEN d.day ELSE IF tok = "HH" THEN d.hour ELSE d.minute

RECURSIVE FormatWith(_, _)
\* Dayjs.format(format) for the formats of the formats array
FormatWith(d, format) ==
    IF Len(format) = 0 THEN <<>>
    ELSE (IF Head(format) \in FieldTokens
          THEN Pad2(FieldOf(d, Head(format)))
          ELSE <<Head(format)>>) \o FormatWith(d, Tail(format))

\* position in the string of the i-th element of the format (fields are two
\* characters wide, separators one)
OffsetOf(format, i) ==
    LET width(k) == IF format[k] \in FieldTokens THEN 2 ELSE 1
        RECURSIVE sum(_)
        sum(k) == IF k = 0 THEN 0 ELSE width(k) + sum(k - 1)
    IN sum(i - 1)

\* the string has the shape of the format: two digits per field, the
\* literal separators between them, nothing else
ShapeMatches(str, format) ==
    /\ Len(str) = OffsetOf(format, Len(format) + 1)
    /\ \A i \in 1..Len(format) :
         LET o == OffsetOf(format, i)
         IN IF format[i] \in FieldTokens
            THEN IsDigit(str[o + 1]) /\ IsDigit(str[o + 2])
            ELSE str[o + 1] = format[i]

\* the number the parser reads for a field, 0 when the format has no such field
ReadField(str, format, tok) ==
    IF \E i \in 1..Len(format) : format[i] = tok
    THEN LET i == CHOOSE i \in 1..Len(format) : format[i] = tok
             o == OffsetOf(format, i)
         IN 10 * DigitVal(str[o + 1]) + DigitVal(str[o + 2])
    ELSE 0

\* dayjs(str, format, true) of the customParseFormat plugin: the fields are
\* read, the missing ones come from the wall clock, the Date constructor
\* carries out-of-range fields over, and strict mode rejects the string
\* unless formatting the date gives the string back
StrictParse(str, format, w) ==
    IF ~ShapeMatches(str, format) THEN InvalidDate
    ELSE LET day     == ReadField(str, format, "DD")
             hours   == ReadField(str, format, "HH")
             minutes == ReadField(str, format, "mm")
             d       == MkDate(w.year, w.month, IF day = 0 THEN w.day ELSE day,
                               hours, minutes, 0, 0)
         IN IF FormatWith(d, format) = str THEN d ELSE InvalidDate

\* Dayjs.isValid()
IsValid(d) == d # InvalidDate

\* preprocessDateStr of the utils module
preprocessDateStr(dateStr) ==
    LET hasDayComponent == Includes(dateStr, "_")
        parts    == Split(dateStr, {"_"})
        dayPart  == IF hasDayComponent THEN PadStart2(parts[1]) \o <<"_">> ELSE <<>>
        timePart == IF hasDayComponent
                    THEN (IF Len(parts) > 1 THEN parts[2] ELSE <<>>)
                    ELSE dateStr
    IN IF Len(timePart) = 0 THEN <<>>
       ELSE LET timeParts == Split(timePart, {"-", ":"})
                delimiter == IF Includes(timePart, ":") THEN ":"
                             ELSE IF Includes(timePart, "-") THEN "-"
                             ELSE ":"
                padded    == [i \in 1..Len(timeParts) |-> PadStart2(timeParts[i])]
            IN dayPart \o Join(padded, delimiter)

\* DayCandidate keeping the month the strict parse took from the wall clock
DayCandidateWallMonth(d, n) == SetDate(SetYear(d, n.year), d.day)

\* d.year(now.year()).month(now.month()).date(d.date())
DayCandidate(d, n) == SetDate(SetMonth(SetYear(d, n.year), n.month), d.day)

\* the branch of the loop body for a format with a day component
ResolveDay(d, n) ==
    LET cand == DayCandidate(d, n)
    IN IF IsBefore(cand, n)
       THEN (IF cand.month # n.month
             THEN SubtractMonths(cand, 1)
             ELSE AddMonths(cand, 1))
       ELSE cand

\* ResolveTime without the roll to the next day
ResolveTimeNoRoll(d, n) == SetSecond(SetMinute(SetHour(n, d.hour), d.minute), 0)

\* ResolveTime rolling by a month, as the day branch does
ResolveTimeRollMonth(d, n) ==
    LET cand == SetSecond(SetMinute(SetHour(n, d.hour), d.minute), 0)
    IN IF IsBefore(cand, SubtractMinutes(n, 30))
       THEN AddMonths(cand, 1)
       ELSE cand

\* ResolveTime rolling also a time exactly 30 minutes before now
ResolveTimeInclusive(d, n) ==
    LET cand == SetSecond(SetMinute(SetHour(n, d.hour), d.minute), 0)
    IN IF ~IsBefore(SubtractMinutes(n, 30), cand)
       THEN AddDays(cand, 1)
       ELSE cand

\* the branch of the loop body for a format without a day component
ResolveTime(d, n) ==
    LET cand == SetSecond(SetMinute(SetHour(n, d.hour), d.minute), 0)
    IN IF IsBefore(cand, SubtractMinutes(n, 30))
       THEN AddDays(cand, 1)
       ELSE cand

RECURSIVE TryFormats(_, _, _, _)
\* the for loop over formats, from the i-th format on
TryFormats(str, n, w, i) ==
    IF i > Len(formats) THEN Undefined
    ELSE LET d == StrictParse(str, formats[i], w)
         IN IF ~IsValid(d) THEN TryFormats(str, n, w, i + 1)
            ELSE IF HasDay(formats[i]) THEN ResolveDay(d, n)
            ELSE ResolveTime(d, n)

\* parseDateWithFormats(dateStr, now) of the utils module, run while the wall
\* clock shows w
parseDateWithFormats(dateStr, n, w) ==
    LET str == preprocessDateStr(dateStr)
    IN IF str = <<>> THEN Undefined ELSE TryFormats(str, n, w, 1)

\* formatTimestamp: "YYYY-MM-DD_HH-mm"
Pad4(n) == <<DigitChars[((n \div 1000) % 10) + 1], DigitChars[((n \div 100) % 10) + 1]>> \o Pad2(n % 100)

formatTimestamp(d) ==
    Pad4(d.year) \o <<"-">> \o Pad2(d.month) \o <<"-">> \o Pad2(d.day)
        \o <<"_">> \o Pad2(d.hour) \o <<"-">> \o Pad2(d.minute)

-----------------------------------------------------------------------------
(* The title normalizer *)

\* SameLetter without the i flag
SameLetterExact(c, lower) == c = lower

\* the i flag: a character equals a lower-case letter up to letter case
SameLetter(c, lower) ==
    c = lower \/ \E i \in 1..26 : LowerSeq[i] = lower /\ UpperSeq[i] = c

\* s has the word w (lower-case letters) at position i, in any letter case
HasWordAt(s, i, w) ==
    /\ i + Len(w) - 1 <= Len(s)
    /\ \A k \in 1..Len(w) : SameLetter(s[i + k - 1], w[k])

RECURSIVE SkipSpaces(_, _)
\* first position from i on that holds no whitespace (Len(s) + 1 if none)
SkipSpaces(s, i) ==
    IF i <= Len(s) /\ IsSpace(s[i]) THEN SkipSpaces(s, i + 1) ELSE i

\* the alternatives of (fw|fwd|re), in the order the regex tries them
PrefixWords == << <<"f", "w">>, <<"f", "w", "d">>, <<"r", "e">> >>

\* end of a match of \s*:\s* that starts at i, or 0 when there is none
ColonEnd(s, i) ==
    LET c == SkipSpaces(s, i)
    IN IF c <= Len(s) /\ s[c] = ":" THEN SkipSpaces(s, c + 1) ELSE 0

\* number of characters /^\s*(fw|fwd|re)\s*:\s*/gi matches at the start of
\* s, 0 when it does not match
PrefixLen(s) ==
    LET start == SkipSpaces(s, 1)
        ends  == [k \in 1..3 |->
                    IF HasWordAt(s, start, PrefixWords[k])
                    THEN ColonEnd(s, start + Len(PrefixWords[k]))
                    ELSE 0]
    IN IF ends[1] > 0 THEN ends[1] - 1
       ELSE IF ends[2] > 0 THEN ends[2] - 1
       ELSE IF ends[3] > 0 THEN ends[3] - 1
       ELSE 0

\* step 0: title.replace(/^\s*(fw|fwd|re)\s*:\s*/gi, "")
StripPrefix(s) == SubSeq(s, PrefixLen(s) + 1, Len(s))

\* step 1: replace(/[^a-zA-Z0-9\s]/g, "-")
ReplaceSpecials(s) ==
    [i \in 1..Len(s) |-> IF IsAlnum(s[i]) \/ IsSpace(s[i]) THEN s[i] ELSE "-"]

IsSpaceOrHyphen(c) == IsSpace(c) \/ c = "-"

\* TrimEnds without the second alternative: only the start is trimmed
TrimStartOnly(s) ==
    IF \A i \in 1..Len(s) : IsSpace(s[i]) \/ s[i] = "-" THEN <<>>
    ELSE LET first == CHOOSE i \in 1..Len(s) :
                        /\ ~(IsSpace(s[i]) \/ s[i] = "-")
                        /\ \A j \in 1..(i - 1) : IsSpace(s[j]) \/ s[j] = "-"
         IN SubSeq(s, first, Len(s))

\* step 2: replace(/^[\s-]+|[\s-]+$/g, "")
TrimEnds(s) ==
    IF \A i \in 1..Len(s) : IsSpaceOrHyphen(s[i]) THEN <<>>
    ELSE LET first == CHOOSE i \in 1..Len(s) :
                        /\ ~IsSpaceOrHyphen(s[i])
                        /\ \A j \in 1..(i - 1) : IsSpaceOrHyphen(s[j])
             last  == CHOOSE i \in 1..Len(s) :
                        /\ ~IsSpaceOrHyphen(s[i])
                        /\ \A j \in (i + 1)..Len(s) : IsSpaceOrHyphen(s[j])
         IN SubSeq(s, first, last)

RECURSIVE CollapseFrom(_, _)
CollapseFrom(s, i) ==
    IF i > Len(s) THEN <<>>
    ELSE IF IsSpace(s[i]) THEN <<" ">> \o CollapseFrom(s, SkipSpaces(s, i))
    ELSE <<s[i]>> \o CollapseFrom(s, i + 1)

\* steps 3 and 8: replace(/\s+/g, " ")
CollapseSpaces(s) == CollapseFrom(s, 1)

RECURSIVE SkipHyphens(_, _)
\* first position from i on that holds no hyphen
SkipHyphens(s, i) ==
    IF i <= Len(s) /\ s[i] = "-" THEN SkipHyphens(s, i + 1) ELSE i

RECURSIVE HyphenRunsFrom(_, _)
HyphenRunsFrom(s, i) ==
    IF i > Len(s) THEN <<>>
    ELSE IF SkipHyphens(s, i) >= i + 2
         THEN <<" ", "-", " ">> \o HyphenRunsFrom(s, SkipHyphens(s, i))
    ELSE <<s[i]>> \o HyphenRunsFrom(s, i + 1)

RECURSIVE EveryHyphenRunFrom(_, _)
EveryHyphenRunFrom(s, i) ==
    IF i > Len(s) THEN <<>>
    ELSE IF s[i] = "-"
         THEN <<" ", "-", " ">> \o EveryHyphenRunFrom(s, SkipHyphens(s, i))
    ELSE <<s[i]>> \o EveryHyphenRunFrom(s, i + 1)

\* SpaceHyphenRuns with the pattern /-+/g: a single hyphen is spaced too
SpaceEveryHyphenRun(s) == EveryHyphenRunFrom(s, 1)

\* step 4: replace(/-{2,}/g, " - ")
SpaceHyphenRuns(s) == HyphenRunsFrom(s, 1)

RECURSIVE AfterAlnumFrom(_, _)
AfterAlnumFrom(s, i) ==
    IF i > Len(s) THEN <<>>
    ELSE IF /\ i + 2 <= Len(s)
            /\ IsAlnum(s[i])
            /\ s[i + 1] = "-"
            /\ ~IsAlnum(s[i + 2])
         THEN <<s[i], " ", "-", " ">> \o AfterAlnumFrom(s, i + 3)
    ELSE <<s[i]>> \o AfterAlnumFrom(s, i + 1)

\* step 5 left out
SpaceHyphenAfterAlnumOff(s) == s

\* step 5: replace(/([a-zA-Z0-9])-[^a-zA-Z0-9]/g, "$1 - ")
SpaceHyphenAfterAlnum(s) == AfterAlnumFrom(s, 1)

RECURSIVE BeforeAlnumFrom(_, _)
BeforeAlnumFrom(s, i) ==
    IF i > Len(s) THEN <<>>
    ELSE IF /\ i + 2 <= Len(s)
            /\ ~IsAlnum(s[i])
            /\ s[i + 1] = "-"
            /\ IsAlnum(s[i + 2])
         THEN <<" ", "-", " ", s[i + 2]>> \o BeforeAlnumFrom(s, i + 3)
    ELSE <<s[i]>> \o BeforeAlnumFrom(s, i + 1)

\* step 6: replace(/[^a-zA-Z0-9]-([a-zA-Z0-9])/g, " - $1")
SpaceHyphenBeforeAlnum(s) == BeforeAlnumFrom(s, 1)

\* s holds the string w at position i
HasAt(s, i, w) ==
    /\ i + Len(w) - 1 <= Len(s)
    /\ \A k \in 1..Len(w) : s[i + k - 1] = w[k]

RECURSIVE SkipRepeats(_, _, _)
\* first position from i on that does not start another copy of w
SkipRepeats(s, i, w) ==
    IF HasAt(s, i, w) THEN SkipRepeats(s, i + Len(w), w) ELSE i

RECURSIVE DoubledFrom(_, _)
DoubledFrom(s, i) ==
    IF i > Len(s) THEN <<>>
    ELSE LET a == SkipRepeats(s, i, <<" ", "-", " ">>)
             b == SkipRepeats(s, a, <<"-", " ">>)
         IN IF a > i /\ b > a
            THEN <<" ", "-", " ">> \o DoubledFrom(s, b)
            ELSE <<s[i]>> \o DoubledFrom(s, i + 1)

\* step 7: replace(/( - )+(- )+/g, " - ")
MergeDoubled(s) == DoubledFrom(s, 1)

\* steps 1 to 8 of sanitizeTitle, everything after the prefix strip
SanitizeSteps(s) ==
    CollapseSpaces(
      MergeDoubled(
        SpaceHyphenBeforeAlnum(
          SpaceHyphenAfterAlnum(
            SpaceHyphenRuns(
              CollapseSpaces(
                TrimEnds(
                  ReplaceSpecials(s))))))))

\* sanitizeTitle of the utils module
sanitizeTitle(title) == SanitizeSteps(StripPrefix(title))

-----------------------------------------------------------------------------
(* Inputs *)

\* longest raw title body enumerated in full
MaxTitleLen == 6

\* longest body enumerated behind a reply/forward prefix
MaxPrefixedLen == 4

\* one letter, the space, the hyphen and one other special character
TitleAlphabet == {"a", " ", "-", "#"}

\* the alphabet of the bodies put behind a prefix: they can themselves
\* begin with a prefix
PrefixedAlphabet == {"a", " ", "r", "e", ":", "\t"}

\* all strings over an alphabet up to a length
Strings(alphabet, n) == UNION {[1..k -> alphabet] : k \in 0..n}

\* reply/forward prefixes as typed
Prefixes ==
    { <<"F", "w", ":", " ">>,
      <<"f", "w", "d", ":">>,
      <<"R", "E", ":", " ">>,
      <<" ", "r", "e", " ", ":", "\t">>,
      <<"F", "W", "D", " ", ":", " ", " ">> }

\* literal titles of the test suite
FixtureTitles ==
    { <<"-", "-", "[", "t", "a", "g", "]", "+", "+", "m", "e", "e", "t", "i", "n", "g", "1", "=", "=">>,
      <<"t", "a", "g", " ", "-", " ", "-", " ", " ", "m", "e", "e", "t", "i", "n", "g", "1">>,
      <<"t", "a", "g", "-", "m", "e", "e", "t", "i", "n", "g", "1">>,
      <<"1", "-", "3", "-", "$", "#", "#", "@", "m", "e", "e", "t", "i", "n", "g", "+", "+", "+", "1">>,
      <<"#", "#", "#", "@", "@", "@">> }

NowYears == {2023, 2024}

NowMonths == {1, 2, 3, 4, 12}

NowDays == {15, 27, 28, 29, 30, 31}

NowHours == {0, 10}

NowMinutes == {0, 45}

\* seconds and milliseconds of now
NowSubMinute == {<<0, 0>>, <<0, 500>>, <<30, 0>>}

\* the reference instants
Nows ==
    { n \in { Stamp(y, m, d, h, mi, sm[1], sm[2]) :
                y \in NowYears, m \in NowMonths, d \in NowDays,
                h \in NowHours, mi \in NowMinutes, sm \in NowSubMinute } :
        n.day <= DaysInMonth(n.year, n.month) }

\* wall-clock dates of a call that passes now explicitly: months of 28, 29,
\* 30 and 31 days
WallClocks ==
    { [year |-> 2023, month |-> 2, day |-> 10],
      [year |-> 2024, month |-> 2, day |-> 10],
      [year |-> 2024, month |-> 4, day |-> 10],
      [year |-> 2024, month |-> 3, day |-> 27] }

\* the wall-clock date of a call that leaves now to its default, dayjs()
DateOf(n) == [year |-> n.year, month |-> n.month, day |-> n.day]

DayFields == { <<"1">>, <<"1", "5">>, <<"2", "9">>, <<"3", "0">>, <<"3", "1">> }

TimeFields ==
    { <<"1", "0", ":", "0", "0">>,
      <<"0", "9", ":", "3", "0">>,
      <<"9", "-", "2", "9">>,
      <<"1", "0", "-", "1", "5">>,
      <<"0">>,
      <<"2", "3", ":", "5", "9">> }

\* tokens that are none of the six shapes in range: empty, no time, out of
\* range, not numeric, an empty field, a second underscore, a third segment
OtherTokens ==
    { <<>>,
      <<"2", "7", "_">>,
      <<"3", "0">>,
      <<"0", "_", "1", "0">>,
      <<"3", "2", "_", "1", "0">>,
      <<"2", "4", ":", "0", "0">>,
      <<"1", "0", ":", "6", "0">>,
      <<"X", "X", "_", "Y", "Y", "-", "Z", "Z">>,
      <<"i", "n", "c", "o", "r", "r", "e", "c", "t", " ", "f", "o", "r", "m", "a", "t">>,
      <<":">>,
      <<"1", "0", ":">>,
      <<"1", "_", "2", "_", "3">>,
      <<"1", "0", ":", "2", "0", ":", "3", "0">> }

Tokens ==
    {d \o <<"_">> \o t : d \in DayFields, t \in TimeFields}
        \cup TimeFields \cup OtherTokens

NoStamp == Stamp(0, 1, 1, 0, 0, 0, 0)

-----------------------------------------------------------------------------
(* The orchestrator (src/meetingNote.ts): its own copies of the helpers *)

\* replace(/-+/g, '-'): every run of hyphens becomes one hyphen
RECURSIVE CollapseHyphensFrom(_, _)
CollapseHyphensFrom(s, i) ==
    IF i > Len(s) THEN <<>>
    ELSE IF s[i] = "-" THEN <<"-">> \o CollapseHyphensFrom(s, SkipHyphens(s, i))
    ELSE <<s[i]>> \o CollapseHyphensFrom(s, i + 1)

CollapseHyphens(s) == CollapseHyphensFrom(s, 1)

\* replace(/(?<! )-(?! )/g, ' - '): a hyphen with no space character right
\* before it and none right after it gets a space on both sides
RECURSIVE SpaceLoneHyphensFrom(_, _)
SpaceLoneHyphensFrom(s, i) ==
    IF i > Len(s) THEN <<>>
    ELSE IF /\ s[i] = "-"
            /\ (i = 1 \/ s[i - 1] # " ")
            /\ (i = Len(s) \/ s[i + 1] # " ")
         THEN <<" ", "-", " ">> \o SpaceLoneHyphensFrom(s, i + 1)
    ELSE <<s[i]>> \o SpaceLoneHyphensFrom(s, i + 1)

SpaceLoneHyphens(s) == SpaceLoneHyphensFrom(s, 1)

\* sanitizeTitle of the orchestrator
meetingNote_sanitizeTitle(title) ==
    CollapseSpaces(
      SpaceLoneHyphens(
        TrimEnds(
          CollapseHyphens(
            [i \in 1..Len(title) |->
               IF IsAlnum(title[i]) \/ IsSpace(title[i]) THEN title[i] ELSE "-"]))))

\* a field written without zero padding
Unpadded(n) == IF n < 10 THEN <<DigitChars[n + 1]>> ELSE Pad2(n)

\* meetingNote_formatTimestamp with the format "YYYY-M-D_H-m"
meetingNote_formatTimestampUnpadded(date) ==
    Pad4(date.year) \o <<"-">> \o Unpadded(date.month) \o <<"-">> \o Unpadded(date.day)
        \o <<"_">> \o Unpadded(date.hour) \o <<"-">> \o Unpadded(date.minute)

\* formatTimestamp of the orchestrator: date.format("YYYY-MM-DD_HH-mm")
meetingNote_formatTimestamp(date) ==
    Pad4(date.year) \o <<"-">> \o Pad2(date.month) \o <<"-">> \o Pad2(date.day)
        \o <<"_">> \o Pad2(date.hour) \o <<"-">> \o Pad2(date.minute)

\* preprocessDateStr of the orchestrator: no test for a missing time part
meetingNote_preprocessDateStr(dateStr) ==
    LET hasDayComponent == Includes(dateStr, "_")
        parts    == Split(dateStr, {"_"})
        dayPart  == IF hasDayComponent THEN PadStart2(parts[1]) \o <<"_">> ELSE <<>>
        timePart == IF hasDayComponent THEN parts[2] ELSE dateStr
        timeParts == Split(timePart, {"-", ":"})
        delimiter == IF Includes(timePart, ":") THEN ":"
                     ELSE IF Includes(timePart, "-") THEN "-"
                     ELSE ":"
        padded    == [i \in 1..Len(timeParts) |-> PadStart2(timeParts[i])]
    IN dayPart \o Join(padded, delimiter)

\* Dayjs.isBefore(now, "day"): the calendar day of a is before that of b
IsBeforeDay(a, b) ==
    LET ka == <<a.year, a.month, a.day>>
        kb == <<b.year, b.month, b.day>>
    IN \E i \in 1..3 : ka[i] < kb[i] /\ \A j \in 1..(i - 1) : ka[j] = kb[j]

\* Dayjs.isToday() while the wall clock shows n
IsToday(d, n) == d.year = n.year /\ d.month = n.month /\ d.day = n.day

\* the loop body of the orchestrator's parseDateWithFormats for a string
\* that format parsed as d; n is dayjs()
meetingNote_Adjust(d, format, n) ==
    LET today  == IF format[1] = "HH"
                  THEN SetYear(SetMonth(SetDate(d, n.day), n.month), n.year)
                  ELSE d
        rolled == IF IsBefore(today, SubtractMinutes(n, 30))
                  THEN AddDays(today, 1)
                  ELSE today
    IN IF ~IsToday(rolled, n) /\ IsBeforeDay(rolled, n)
       THEN AddMonths(rolled, 1)
       ELSE rolled

RECURSIVE meetingNote_TryFormats(_, _, _)
\* the for loop over formats, from the i-th format on
meetingNote_TryFormats(dateStr, n, i) ==
    IF i > Len(formats) THEN Undefined
    ELSE LET d == StrictParse(dateStr, formats[i], DateOf(n))
         IN IF ~IsValid(d) THEN meetingNote_TryFormats(dateStr, n, i + 1)
            ELSE meetingNote_Adjust(d, formats[i], n)

\* parseDateWithFormats(dateStr) of the orchestrator, called when dayjs() is n
meetingNote_parseDateWithFormats(dateStr, n) == meetingNote_TryFormats(dateStr, n, 1)

\* String.prototype.trim
RECURSIVE TrimStart(_)
TrimStart(s) == IF Len(s) > 0 /\ IsSpace(s[1]) THEN TrimStart(Tail(s)) ELSE s

RECURSIVE TrimEnd(_)
TrimEnd(s) ==
    IF Len(s) > 0 /\ IsSpace(s[Len(s)]) THEN TrimEnd(SubSeq(s, 1, Len(s) - 1)) ELSE s

Trim(s) == TrimEnd(TrimStart(s))

\* IndexOfSpace taking an input without a space as a token with no title
IndexOfSpaceOrEnd(s) ==
    IF \E i \in 1..Len(s) : s[i] = " "
    THEN (CHOOSE i \in 1..Len(s) : s[i] = " " /\ \A j \in 1..(i - 1) : s[j] # " ") - 1
    ELSE Len(s)

\* trimmedUserInput.indexOf(" "): 0-based, -1 when there is no space
IndexOfSpace(s) ==
    IF \E i \in 1..Len(s) : s[i] = " "
    THEN (CHOOSE i \in 1..Len(s) : s[i] = " " /\ \A j \in 1..(i - 1) : s[j] # " ") - 1
    ELSE -1

\* String.prototype.substring(from, to) with 0-based bounds
Substring(s, from, to) == SubSeq(s, from + 1, to)

\* s.replace(/pat/g, rep) for a pattern that is a literal text
RECURSIVE ReplaceAll(_, _, _, _)
ReplaceAll(s, i, pat, rep) ==
    IF i > Len(s) THEN <<>>
    ELSE IF HasAt(s, i, pat) THEN rep \o ReplaceAll(s, i + Len(pat), pat, rep)
    ELSE <<s[i]>> \o ReplaceAll(s, i + 1, pat, rep)

TitlePlaceholder == <<"{", "t", "i", "t", "l", "e", "}">>

TimestampPlaceholder == <<"{", "t", "i", "m", "e", "s", "t", "a", "m", "p", "}">>

\* templateContent.replace(/{title}/g, sanitizedTitle).replace(/{timestamp}/g, timestamp)
FillTemplate(templateContent, sanitizedTitle, timestamp) ==
    ReplaceAll(ReplaceAll(templateContent, 1, TitlePlaceholder, sanitizedTitle),
               1, TimestampPlaceholder, timestamp)

\* a setting of the plug as readSetting returns it
NoSetting == [type |-> "undefined"]

NumberSetting == [type |-> "number"]

StringSetting(s) == [type |-> "string", value |-> s]

\* meetingNoteConfigSchema.parse succeeds: both settings are strings or absent
SchemaAccepts(userConfig) ==
    /\ userConfig.meetingNoteTemplatePath.type \in {"undefined", "string"}
    /\ userConfig.meetingNoteBasePath.type \in {"undefined", "string"}

\* meetingNoteConfigSchema.parse({})
EmptyConfig == [meetingNoteTemplatePath |-> NoSetting, meetingNoteBasePath |-> NoSetting]

\* !value of a setting: absent or the empty string
Falsy(v) == v.type # "string" \/ v.value = <<>>

\* ConfigIncomplete testing the template path only
ConfigIncompleteTemplateOnly(config) == Falsy(config.meetingNoteTemplatePath)

\* !config.meetingNoteTemplatePath || !config.meetingNoteBasePath
ConfigIncomplete(config) ==
    Falsy(config.meetingNoteTemplatePath) \/ Falsy(config.meetingNoteBasePath)

\* `${value}` of a setting inside a template literal
TextOf(v) ==
    IF v.type = "string" THEN v.value
    ELSE <<"u", "n", "d", "e", "f", "i", "n", "e", "d">>

\* the messages handed to editor.flashNotification
ConfigErrorMessage == "There was an error with your meetingNote configuration. Check your SETTINGS file"

MissingPathsMessage == "Please enter both a meetingNoteTemplatePath and meetingNoteBasePath."

TemplateErrorMessage == "Failed to read template content"

InputErrorMessage == "Please enter both a date and a title."

ParseErrorMessage == "Could not parse date."

DuplicateMessage == "Note already exists!"

CreatedMessage == "Note created successfully!"

WriteErrorMessage == "Failed to create note"

-----------------------------------------------------------------------------
(* The orchestrator: meetingNote invocations against the space *)

\* number of meetingNote invocations of one process
MaxInvocations == 2

Invocations == 1..MaxInvocations

\* the instant dayjs() shows while the invocations run: all of them run
\* within the same second
NoteNows == { Stamp(2024, 3, 27, 10, 0, 30, 500) }

TemplatePath == <<"t">>

BasePath == <<"m">>

\* the template page: both placeholders, one of them twice
TemplateContent == TitlePlaceholder \o <<" ">> \o TimestampPlaceholder \o <<" ">> \o TitlePlaceholder

\* a note written earlier and edited since
ExistingNotePath ==
    BasePath \o <<"/">> \o
    <<"2", "0", "2", "4", "-", "0", "3", "-", "2", "7", "_", "1", "0", "-", "2", "0">>
    \o <<" ", "-", " ", "a">>

ExistingNoteContent == <<"e", "d", "i", "t", "e", "d">>

\* what readSetting("meetingNote") may return
UserConfigs ==
    { [meetingNoteTemplatePath |-> StringSetting(TemplatePath), meetingNoteBasePath |-> StringSetting(BasePath)],
      [meetingNoteTemplatePath |-> NoSetting, meetingNoteBasePath |-> StringSetting(BasePath)],
      [meetingNoteTemplatePath |-> StringSetting(TemplatePath), meetingNoteBasePath |-> NoSetting],
      [meetingNoteTemplatePath |-> StringSetting(TemplatePath), meetingNoteBasePath |-> StringSetting(<<>>)],
      EmptyConfig,
      [meetingNoteTemplatePath |-> StringSetting(TemplatePath), meetingNoteBasePath |-> NumberSetting] }

\* what the user may type into the prompt
UserInputs ==
    { <<"1", "0", ":", "2", "0", " ", "a">>,
      <<"1", "0", ":", "2", "0">>,
      <<"1", "0", ":", "2", "0", "\t", "a">>,
      <<"x", "x", " ", "a">>,
      <<"5", "_", "1", "6", "-", "0", "0", " ", "a", "-", "b">>,
      <<"2", "7", "_", " ", "a">>,
      <<"1", "0", " ", "!", "!", "!">> }

\* the pages of the space before the first invocation
InitialSpaces ==
    { (TemplatePath :> TemplateContent),
      (TemplatePath :> TemplateContent) @@ (ExistingNotePath :> ExistingNoteContent),
      (ExistingNotePath :> ExistingNoteContent) }

\* one entry of the record of calls an invocation made
Call(name, info) == [call |-> name, info |-> info]

Flash(message) == Call("flashNotification", message)

\* an invocation that has not run yet
NotStarted ==
    [pc |-> "start", config |-> EmptyConfig, templateContent |-> <<>>,
     userInput |-> <<>>, parsedDate |-> Undefined, notePath |-> <<>>,
     noteContent |-> <<>>, trace |-> <<>>]

\* the orchestrator's variables where no invocation runs
NoteIdle ==
    /\ settings = EmptyConfig
    /\ configErrorShown = FALSE
    /\ pages = <<>>
    /\ writes = {}
    /\ inv = [i \in Invocations |-> NotStarted]

\* the plug is loaded, no invocation has run
InitNote ==
    /\ pc = "note"
    /\ settings \in UserConfigs
    /\ configErrorShown = FALSE
    /\ pages \in InitialSpaces
    /\ writes = {}
    /\ inv = [i \in Invocations |-> NotStarted]
    /\ now \in NoteNows
    /\ wall = DateOf(now)
    /\ token = <<>>
    /\ parsed = Undefined
    /\ prefix = <<>>
    /\ body = <<>>
    /\ sanitized = <<>>
    /\ resanitized = <<>>
    /\ reparsed = Undefined

\* showConfigErrorNotification flashes: the latch is not set yet
ShowsConfigError(shown) == ~shown

\* getPlugConfig: readSetting, schema.parse, on failure the latched
\* notification and the empty configuration
GetPlugConfig(i) ==
    /\ pc = "note"
    /\ inv[i].pc = "start"
    /\ LET ok    == SchemaAccepts(settings)
           flash == ~ok /\ ShowsConfigError(configErrorShown)
       IN /\ inv' = [inv EXCEPT
                       ![i].pc = "config",
                       ![i].config = IF ok THEN settings ELSE EmptyConfig,
                       ![i].trace = @ \o <<Call("readSetting", "meetingNote")>>
                                      \o (IF flash THEN <<Flash(ConfigErrorMessage)>> ELSE <<>>)]
          /\ configErrorShown' = (configErrorShown \/ ~ok)
    /\ UNCHANGED <<settings, pages, writes, resolverVars>>

\* the test of the two paths after getPlugConfig
CheckConfig(i) ==
    /\ pc = "note"
    /\ inv[i].pc = "config"
    /\ inv' = IF ConfigIncomplete(inv[i].config)
              THEN [inv EXCEPT ![i].pc = "done",
                               ![i].trace = Append(@, Flash(MissingPathsMessage))]
              ELSE [inv EXCEPT ![i].pc = "readTemplate"]
    /\ UNCHANGED <<settings, configErrorShown, pages, writes, resolverVars>>

\* readNoteContent(config.meetingNoteTemplatePath) returns the page
ReadTemplate(i) ==
    /\ pc = "note"
    /\ inv[i].pc = "readTemplate"
    /\ TextOf(inv[i].config.meetingNoteTemplatePath) \in DOMAIN pages
    /\ inv' = [inv EXCEPT
                 ![i].pc = "prompt",
                 ![i].templateContent = pages[TextOf(inv[i].config.meetingNoteTemplatePath)],
                 ![i].trace = Append(@, Call("readPage", "content"))]
    /\ UNCHANGED <<settings, configErrorShown, pages, writes, resolverVars>>

\* ReadTemplateFails where the invocation goes on to the prompt
ReadTemplateFailsGoesOn(i) ==
    /\ pc = "note"
    /\ inv[i].pc = "readTemplate"
    /\ inv' = [inv EXCEPT
                 ![i].pc = "prompt",
                 ![i].trace = @ \o <<Call("readPage", "throws"), Flash(TemplateErrorMessage)>>]
    /\ UNCHANGED <<settings, configErrorShown, pages, writes, resolverVars>>

\* readNoteContent throws: the page is missing or the space fails
ReadTemplateFails(i) ==
    /\ pc = "note"
    /\ inv[i].pc = "readTemplate"
    /\ inv' = [inv EXCEPT
                 ![i].pc = "done",
                 ![i].trace = @ \o <<Call("readPage", "throws"), Flash(TemplateErrorMessage)>>]
    /\ UNCHANGED <<settings, configErrorShown, pages, writes, resolverVars>>

\* editor.prompt returns a text: split, parse, build title, content and path
Prompt(i) ==
    /\ pc = "note"
    /\ inv[i].pc = "prompt"
    /\ \E userInput \in UserInputs :
         LET trimmedUserInput == Trim(userInput)
             firstSpaceIndex  == IndexOfSpace(trimmedUserInput)
             dateStr    == meetingNote_preprocessDateStr(
                               Trim(Substring(trimmedUserInput, 0, firstSpaceIndex)))
             title      == Trim(Substring(trimmedUserInput, firstSpaceIndex + 1,
                                          Len(trimmedUserInput)))
             parsedDate == meetingNote_parseDateWithFormats(dateStr, now)
             timestamp  == meetingNote_formatTimestamp(parsedDate)
             sanitizedTitle == meetingNote_sanitizeTitle(title)
             noteTitle  == timestamp \o <<" ", "-", " ">> \o sanitizedTitle
             asked      == [inv EXCEPT ![i].userInput = userInput,
                                       ![i].trace = Append(@, Call("prompt", "text"))]
         IN inv' =
              IF firstSpaceIndex = -1
              THEN [asked EXCEPT ![i].pc = "done",
                                 ![i].trace = Append(@, Flash(InputErrorMessage))]
              ELSE IF parsedDate = Undefined
              THEN [asked EXCEPT ![i].pc = "done",
                                 ![i].trace = @ \o <<Call("parseDateWithFormats", "undefined"),
                                                     Flash(ParseErrorMessage)>>]
              ELSE [asked EXCEPT
                      ![i].pc = "noteExists",
                      ![i].parsedDate = parsedDate,
                      ![i].noteContent = FillTemplate(inv[i].templateContent,
                                                      sanitizedTitle, timestamp),
                      ![i].notePath = TextOf(inv[i].config.meetingNoteBasePath)
                                          \o <<"/">> \o noteTitle,
                      ![i].trace = Append(@, Call("parseDateWithFormats", "date"))]
    /\ UNCHANGED <<settings, configErrorShown, pages, writes, resolverVars>>

\* editor.prompt returns undefined: the user cancelled
PromptCancelled(i) ==
    /\ pc = "note"
    /\ inv[i].pc = "prompt"
    /\ inv' = [inv EXCEPT ![i].pc = "done",
                          ![i].trace = Append(@, Call("prompt", "cancelled"))]
    /\ UNCHANGED <<settings, configErrorShown, pages, writes, resolverVars>>

\* noteExists(notePath): getPageMeta answers
NoteExists(i) ==
    /\ pc = "note"
    /\ inv[i].pc = "noteExists"
    /\ inv' = IF inv[i].notePath \in DOMAIN pages
              THEN [inv EXCEPT ![i].pc = "done",
                               ![i].trace = @ \o <<Call("getPageMeta", "found"),
                                                   Flash(DuplicateMessage)>>]
              ELSE [inv EXCEPT ![i].pc = "writePage",
                               ![i].trace = Append(@, Call("getPageMeta", "absent"))]
    /\ UNCHANGED <<settings, configErrorShown, pages, writes, resolverVars>>

\* NoteExistsFails where the failure of getPageMeta ends the invocation
NoteExistsFailsAborts(i) ==
    /\ pc = "note"
    /\ inv[i].pc = "noteExists"
    /\ inv' = [inv EXCEPT ![i].pc = "done",
                          ![i].trace = Append(@, Call("getPageMeta", "throws"))]
    /\ UNCHANGED <<settings, configErrorShown, pages, writes, resolverVars>>

\* noteExists(notePath): getPageMeta throws and the catch returns false
NoteExistsFails(i) ==
    /\ pc = "note"
    /\ inv[i].pc = "noteExists"
    /\ inv' = [inv EXCEPT ![i].pc = "writePage",
                          ![i].trace = Append(@, Call("getPageMeta", "throws"))]
    /\ UNCHANGED <<settings, configErrorShown, pages, writes, resolverVars>>

\* space.writePage(notePath, noteContent) stores the page
WritePage(i) ==
    /\ pc = "note"
    /\ inv[i].pc = "writePage"
    /\ pages' = [p \in DOMAIN pages \cup {inv[i].notePath} |->
                   IF p = inv[i].notePath THEN inv[i].noteContent ELSE pages[p]]
    /\ writes' = writes \cup {[inv |-> i, path |-> inv[i].notePath,
                               existed |-> inv[i].notePath \in DOMAIN pages]}
    /\ inv' = [inv EXCEPT ![i].pc = "done",
                          ![i].trace = @ \o <<Call("writePage", "ok"), Flash(CreatedMessage)>>]
    /\ UNCHANGED <<settings, configErrorShown, resolverVars>>

\* space.writePage throws
WritePageFails(i) ==
    /\ pc = "note"
    /\ inv[i].pc = "writePage"
    /\ inv' = [inv EXCEPT ![i].pc = "done",
                          ![i].trace = @ \o <<Call("writePage", "throws"), Flash(WriteErrorMessage)>>]
    /\ UNCHANGED <<settings, configErrorShown, pages, writes, resolverVars>>

\* one step of one meetingNote invocation
meetingNote(i) ==
    \/ GetPlugConfig(i)
    \/ CheckConfig(i)
    \/ ReadTemplate(i)
    \/ ReadTemplateFails(i)
    \/ Prompt(i)
    \/ PromptCancelled(i)
    \/ NoteExists(i)
    \/ NoteExistsFails(i)
    \/ WritePage(i)
    \/ WritePageFails(i)

NextNote == \E i \in Invocations : meetingNote(i)

-----------------------------------------------------------------------------
(* The state machine of the utils module, and the whole *)

\* a call of parseDateWithFormats is about to be made
InitResolve ==
    /\ pc = "input"
    /\ token \in Tokens
    /\ now \in Nows
    /\ wall \in WallClocks \cup {DateOf(now)}
    /\ parsed = Undefined
    /\ prefix = <<>>
    /\ body = <<>>
    /\ sanitized = <<>>
    /\ resanitized = <<>>
    /\ reparsed = Undefined
    /\ NoteIdle

\* a call of sanitizeTitle is about to be made
InitTitle ==
    /\ pc = "title"
    /\ \/ /\ prefix = <<>>
          /\ body \in Strings(TitleAlphabet, MaxTitleLen) \cup FixtureTitles
       \/ /\ prefix \in Prefixes
          /\ body \in Strings(PrefixedAlphabet, MaxPrefixedLen)
    /\ sanitized = <<>>
    /\ resanitized = <<>>
    /\ reparsed = Undefined
    /\ token = <<>>
    /\ now = NoStamp
    /\ wall = DateOf(NoStamp)
    /\ parsed = Undefined
    /\ NoteIdle

\* a call of the orchestrator's sanitizeTitle is about to be made: the title
\* it gets is trimmed
InitNoteTitle ==
    /\ pc = "noteTitle"
    /\ prefix = <<>>
    /\ body \in { s \in Strings(TitleAlphabet, MaxTitleLen) : Trim(s) = s }
    /\ sanitized = <<>>
    /\ resanitized = <<>>
    /\ reparsed = Undefined
    /\ token = <<>>
    /\ now = NoStamp
    /\ wall = DateOf(NoStamp)
    /\ parsed = Undefined
    /\ NoteIdle

Init == InitResolve \/ InitTitle \/ InitNote \/ InitNoteTitle

\* parseDateWithFormats(token, now)
Resolve ==
    /\ pc = "input"
    /\ parsed' = parseDateWithFormats(token, now, wall)
    /\ pc' = "resolved"
    /\ UNCHANGED <<token, now, wall, prefix, body, sanitized, resanitized, reparsed, noteVars>>

\* the token 'DD_HH-mm' written from the day-of-month, hour and minute of d
DayTokenOf(d) == Pad2(d.day) \o <<"_">> \o Pad2(d.hour) \o <<"-">> \o Pad2(d.minute)

\* parseDateWithFormats applied to the token built from its own result
Reresolve ==
    /\ pc = "resolved"
    /\ parsed # Undefined
    /\ reparsed' = parseDateWithFormats(DayTokenOf(parsed), now, wall)
    /\ pc' = "reresolved"
    /\ UNCHANGED <<token, now, wall, parsed, prefix, body, sanitized, resanitized, noteVars>>

\* sanitizeTitle(title)
Sanitize ==
    /\ pc = "title"
    /\ sanitized' = sanitizeTitle(prefix \o body)
    /\ pc' = "sanitized"
    /\ UNCHANGED <<token, now, wall, parsed, prefix, body, resanitized, reparsed, noteVars>>

\* sanitizeTitle applied to its own output
Resanitize ==
    /\ pc = "sanitized"
    /\ resanitized' = sanitizeTitle(sanitized)
    /\ pc' = "resanitized"
    /\ UNCHANGED <<token, now, wall, parsed, prefix, body, sanitized, reparsed, noteVars>>

\* sanitizeTitle(title) of the orchestrator
SanitizeForNote ==
    /\ pc = "noteTitle"
    /\ sanitized' = meetingNote_sanitizeTitle(prefix \o body)
    /\ pc' = "noteSanitized"
    /\ UNCHANGED <<token, now, wall, parsed, prefix, body, resanitized, reparsed, noteVars>>

NextResolve == Resolve \/ Reresolve

NextTitle == Sanitize \/ Resanitize

NextNoteTitle == SanitizeForNote

Next == Resolve \/ Reresolve \/ Sanitize \/ Resanitize \/ NextNote \/ SanitizeForNote

SpecResolve == InitResolve /\ [][NextResolve]_vars

SpecTitle == InitTitle /\ [][NextTitle]_vars

SpecNote == InitNote /\ [][NextNote]_vars

SpecNoteTitle == InitNoteTitle /\ [][NextNoteTitle]_vars

Spec == Init /\ [][Next]_vars

-----------------------------------------------------------------------------
(* The token as typed, read field by field *)

\* one or two digits
IsField(s) == Len(s) \in {1, 2} /\ \A i \in 1..Len(s) : IsDigit(s[i])

\* the number a field of one or two digits writes
FieldVal(s) ==
    IF Len(s) = 1 THEN DigitVal(s[1]) ELSE 10 * DigitVal(s[1]) + DigitVal(s[2])

\* a time of the shape HH, HH:mm or HH-mm
IsTimeText(t) ==
    LET f == Split(t, {":", "-"})
    IN /\ Len(f) \in {1, 2}
       /\ \A i \in 1..Len(f) : IsField(f[i])
       /\ ~(Includes(t, ":") /\ Includes(t, "-"))

\* the token has one of the three shapes with a day, DD_HH-mm, DD_HH:mm, DD_HH
IsDayToken(t) ==
    LET p == Split(t, {"_"})
    IN Len(p) = 2 /\ IsField(p[1]) /\ IsTimeText(p[2])

\* the token has one of the three shapes without a day, HH:mm, HH-mm, HH
IsTimeToken(t) == ~Includes(t, "_") /\ IsTimeText(t)

WrittenTime(t) == IF Includes(t, "_") THEN Split(t, {"_"})[2] ELSE t

WrittenDay(t) == FieldVal(Split(t, {"_"})[1])

WrittenHour(t) == FieldVal(Split(WrittenTime(t), {":", "-"})[1])

WrittenMinute(t) ==
    LET f == Split(WrittenTime(t), {":", "-"})
    IN IF Len(f) = 2 THEN FieldVal(f[2]) ELSE 0

\* the calendar day after a date
DayAfter(y, m, d) ==
    IF d < DaysInMonth(y, m) THEN [year |-> y, month |-> m, day |-> d + 1]
    ELSE IF m < 12 THEN [year |-> y, month |-> m + 1, day |-> 1]
    ELSE [year |-> y + 1, month |-> 1, day |-> 1]

\* the calendar month after a month
MonthAfter(y, m) ==
    IF m < 12 THEN [year |-> y, month |-> m + 1] ELSE [year |-> y + 1, month |-> 1]

\* days from the start of year 2000 to the start of year y
DaysBeforeYear(y) ==
    LET n == y - 2000
    IN 365 * n + ((n + 3) \div 4) - ((n + 99) \div 100) + ((n + 399) \div 400)

RECURSIVE DaysBeforeMonth(_, _)
DaysBeforeMonth(y, m) ==
    IF m = 1 THEN 0 ELSE DaysInMonth(y, m - 1) + DaysBeforeMonth(y, m - 1)

\* whole minutes from the start of year 2000 to the instant
Minutes(d) ==
    ((DaysBeforeYear(d.year) + DaysBeforeMonth(d.year, d.month) + (d.day - 1)) * 24
        + d.hour) * 60 + d.minute

\* milliseconds of the instant within its minute
SubMinute(d) == d.second * 1000 + d.ms

\* instant a is at least `back` minutes before instant b or later:
\* a >= b - back minutes
NotEarlierThan(a, b, back) ==
    \/ Minutes(a) + back > Minutes(b)
    \/ Minutes(a) + back = Minutes(b) /\ SubMinute(a) >= SubMinute(b)

Resolved == pc = "resolved" /\ parsed # Undefined

-----------------------------------------------------------------------------
(* C1 *)

\* C1: whenever parseDateWithFormats returns a timestamp, the timestamp is
\* not earlier than now minus 30 minutes (1 800 000 ms)
C1_NotStale == Resolved => NotEarlierThan(parsed, now, 30)

\* a time-only token exactly 30 minutes before now was resolved to today
C1_Witness ==
    /\ Resolved
    /\ IsTimeToken(token)
    /\ Minutes(parsed) + 30 = Minutes(now)
    /\ SubMinute(parsed) = SubMinute(now)

-----------------------------------------------------------------------------
(* C2 *)

\* C2: for every accepted day-bearing token the day-of-month of the result
\* is the day written in the token
C2_DayKept == (Resolved /\ IsDayToken(token)) => parsed.day = WrittenDay(token)

-----------------------------------------------------------------------------
(* C3 *)

\* C3: for an accepted day-bearing token with day D at h:m, the result is day
\* D at h:m of the month after now's month when (now.year, now.month, D, h, m)
\* is before now, and that candidate itself otherwise
C3_NextMonthOrSame ==
    (Resolved /\ IsDayToken(token)) =>
        LET D    == WrittenDay(token)
            h    == WrittenHour(token)
            m    == WrittenMinute(token)
            cand == Stamp(now.year, now.month, D, h, m, 0, 0)
            nxt  == MonthAfter(now.year, now.month)
        IN parsed = IF Before(cand, now)
                    THEN Stamp(nxt.year, nxt.month, D, h, m, 0, 0)
                    ELSE cand

-----------------------------------------------------------------------------
(* C4 *)

\* C4: for every accepted time-only token the date of the result is now's
\* date or the calendar day after it
C4_TodayOrTomorrow ==
    (Resolved /\ IsTimeToken(token)) =>
        DateOf(parsed) \in {DateOf(now), DayAfter(now.year, now.month, now.day)}

\* a time-only token was rolled over the end of a year
C4_Witness ==
    /\ Resolved
    /\ IsTimeToken(token)
    /\ parsed.year = now.year + 1
    /\ parsed.month = 1
    /\ parsed.day = 1

-----------------------------------------------------------------------------
(* C5 *)

InRangeTime(t) == IsTimeToken(t) /\ WrittenHour(t) <= 23 /\ WrittenMinute(t) <= 59

\* now's date at the time the token writes, with the given milliseconds
TodayAt(t, ms) ==
    Stamp(now.year, now.month, now.day, WrittenHour(t), WrittenMinute(t), 0, ms)

\* the same time on the calendar day after
NextDayOf(d) ==
    LET a == DayAfter(d.year, d.month, d.day)
    IN [d EXCEPT !.year = a.year, !.month = a.month, !.day = a.day]

\* the calendar fields down to the second
ToSecond(d) == <<d.year, d.month, d.day, d.hour, d.minute, d.second>>

\* C5 as stated: the result is now's date at h:m:00 when that instant is not
\* before now minus 30 minutes, and the next day at h:m:00 otherwise
C5_AsStated ==
    (pc = "resolved" /\ InRangeTime(token)) =>
        /\ parsed # Undefined
        /\ ToSecond(parsed) =
             ToSecond(IF NotEarlierThan(TodayAt(token, 0), now, 30)
                      THEN TodayAt(token, 0)
                      ELSE NextDayOf(TodayAt(token, 0)))

\* C5 amended: the result keeps now's milliseconds, and it is now's date at
\* h:m:00 when h:m:00 with now's milliseconds is not before now minus 30
\* minutes, the next calendar day at that time otherwise
C5_WithMillis ==
    (pc = "resolved" /\ InRangeTime(token)) =>
        parsed = IF NotEarlierThan(TodayAt(token, now.ms), now, 30)
                 THEN TodayAt(token, now.ms)
                 ELSE NextDayOf(TodayAt(token, now.ms))

\* a time exactly 30 minutes before a now with milliseconds stayed today
C5_Witness ==
    /\ pc = "resolved"
    /\ InRangeTime(token)
    /\ now.ms > 0
    /\ parsed = TodayAt(token, now.ms)
    /\ Minutes(parsed) + 30 = Minutes(now)

-----------------------------------------------------------------------------
(* The title normalizer's claims *)

\* the raw title handed to sanitizeTitle
title == prefix \o body

TitleDone == pc \in {"sanitized", "resanitized"}

\* the hyphen at position i has exactly one space before it and exactly one
\* space after it
HyphenSpaced(s, i) ==
    /\ i - 2 >= 1 /\ s[i - 1] = " " /\ s[i - 2] # " "
    /\ i + 2 <= Len(s) /\ s[i + 1] = " " /\ s[i + 2] # " "

\* the hyphen at position i stands directly between two letters or digits
HyphenBare(s, i) ==
    /\ i - 1 >= 1 /\ IsAlnum(s[i - 1])
    /\ i + 1 <= Len(s) /\ IsAlnum(s[i + 1])

HyphensOf(s) == {i \in 1..Len(s) : s[i] = "-"}

\* C6: sanitizeTitle is idempotent
C6_Idempotent == pc = "resanitized" => resanitized = sanitized

C8_OneSeparator ==
    TitleDone =>
        /\ \A i, j \in HyphensOf(sanitized) :
             i < j => \E k \in (i + 1)..(j - 1) : IsAlnum(sanitized[k])
        /\ \A i \in 1..(Len(sanitized) - 1) :
             ~(sanitized[i] = " " /\ sanitized[i + 1] = " ")

\* C9: the output holds only letters, digits, spaces and hyphens, is empty
\* or starts and ends with a letter or digit, and is empty when the input
\* has no letter or digit
C9_WellFormed ==
    TitleDone =>
        /\ \A i \in 1..Len(sanitized) :
             IsAlnum(sanitized[i]) \/ sanitized[i] = " " \/ sanitized[i] = "-"
        /\ Len(sanitized) > 0 =>
             IsAlnum(sanitized[1]) /\ IsAlnum(sanitized[Len(sanitized)])
        /\ (\A i \in 1..Len(title) : ~IsAlnum(title[i])) => sanitized = <<>>

\* a non-empty input without letter or digit gave the empty string
C9_Witness ==
    /\ TitleDone
    /\ Len(title) > 0
    /\ \A i \in 1..Len(title) : ~IsAlnum(title[i])
    /\ sanitized = <<>>

\* the string begins with a reply/forward prefix
BeginsWithPrefix(x) == PrefixLen(x) > 0

\* C10: behind one leading prefix, a body that begins with no prefix is
\* normalized as it is alone, and a body that begins with a second prefix
\* keeps it as title text
C10_PrefixRemovedOnce ==
    (TitleDone /\ prefix # <<>>) =>
        /\ ~BeginsWithPrefix(body) => sanitized = sanitizeTitle(body)
        /\ BeginsWithPrefix(body) => sanitized = SanitizeSteps(body)

\* a second prefix was kept where the body alone would have lost it
C10_Witness ==
    /\ TitleDone
    /\ prefix # <<>>
    /\ BeginsWithPrefix(body)
    /\ sanitized # sanitizeTitle(body)
    /\ \E i \in 1..Len(body) : IsAlnum(body[i]) /\ body[i] \notin {"r", "e"}

-----------------------------------------------------------------------------
(* C11 *)

\* C11: a timestamp is returned only for a token that, as typed, has one of
\* the six shapes with every field of one or two digits
C11_OnlySixShapes == Resolved => (IsDayToken(token) \/ IsTimeToken(token))

-----------------------------------------------------------------------------
(* C12 *)

\* the token has one of the six shapes
HasShape(t) == IsDayToken(t) \/ IsTimeToken(t)

\* a field of the token is out of range, the day against now's month
OutOfRange(t, n) ==
    \/ WrittenHour(t) > 23
    \/ WrittenMinute(t) > 59
    \/ IsDayToken(t) /\ WrittenDay(t) = 0
    \/ IsDayToken(t) /\ WrittenDay(t) > DaysInMonth(n.year, n.month)

\* C12: a token of a valid shape with a field out of range (hour above 23,
\* minute above 59, day 0, day above the length of now's month) gives
\* undefined
C12_OutOfRangeUndefined ==
    (pc = "resolved" /\ HasShape(token) /\ OutOfRange(token, now)) =>
        parsed = Undefined

-----------------------------------------------------------------------------
(* C13 *)

NoDigit(t) == \A i \in 1..Len(t) : ~IsDigit(t[i])

\* a day part followed by an underscore and nothing else
DayWithoutTime(t) ==
    LET p == Split(t, {"_"}) IN Len(p) = 2 /\ IsField(p[1]) /\ Len(p[2]) = 0

\* a bare number that is no hour
BareNonHour(t) == IsField(t) /\ FieldVal(t) > 23

\* C13: the empty token, a token without any digit, a day part without a
\* time part and a bare number that is no valid hour give undefined
C13_MalformedUndefined ==
    (pc = "resolved"
       /\ (token = <<>> \/ NoDigit(token) \/ DayWithoutTime(token) \/ BareNonHour(token)))
        => parsed = Undefined

-----------------------------------------------------------------------------
(* C14 *)

\* C14: the outcome depends on the token and on now only: the same call made
\* on any other wall-clock date returns the same
C14_WallIndependent ==
    pc = "resolved" =>
        \A w \in WallClocks : parseDateWithFormats(token, now, w) = parsed

-----------------------------------------------------------------------------
(* The calls of an invocation *)

\* positions of the calls of one collaborator in the record of invocation i
CallsOf(i, name) == { k \in 1..Len(inv[i].trace) : inv[i].trace[k].call = name }

\* positions of the error notifications of invocation i
ErrorFlashes(i) ==
    { k \in CallsOf(i, "flashNotification") : inv[i].trace[k].info # CreatedMessage }

\* invocation i made the call with that outcome
Made(i, name, info) == \E k \in CallsOf(i, name) : inv[i].trace[k].info = info

\* the prompt of invocation i returned a text
Typed(i) == Made(i, "prompt", "text")

\* the typed text has a space between a token and a title
HasSeparator(input) == Includes(Trim(input), " ")

\* the token and the raw title of a typed text with a separator
TokenOf(input) == Split(Trim(input), {" "})[1]

RawTitleOf(input) ==
    LET t == Trim(input)
    IN Trim(SubSeq(t, Len(TokenOf(input)) + 2, Len(t)))

-----------------------------------------------------------------------------
(* C15 *)

\* C15: no writePage call stores a page at a path where a page exists at the
\* moment of the write, and an invocation that finds the path taken flashes
\* 'Note already exists!' and makes no writePage call
C15_NeverOverwrites ==
    /\ \A w \in writes : ~w.existed
    /\ \A i \in Invocations :
         Made(i, "getPageMeta", "found") =>
             /\ Made(i, "flashNotification", DuplicateMessage)
             /\ CallsOf(i, "writePage") = {}

-----------------------------------------------------------------------------
(* C16 *)

\* the token of the typed text is one the orchestrator cannot parse
Unparsable(input) ==
    /\ HasSeparator(input)
    /\ meetingNote_parseDateWithFormats(
           meetingNote_preprocessDateStr(TokenOf(input)), now) = Undefined

\* the calls before a writePage call: every step before it succeeded
BeforeWrite(t) ==
    /\ Len(t) = 5
    /\ t[1] = Call("readSetting", "meetingNote")
    /\ t[2] = Call("readPage", "content")
    /\ t[3] = Call("prompt", "text")
    /\ t[4] = Call("parseDateWithFormats", "date")
    /\ t[5] \in {Call("getPageMeta", "absent"), Call("getPageMeta", "throws")}

-----------------------------------------------------------------------------
(* C17 *)

\* the notifications about the configuration
ConfigMessages == {ConfigErrorMessage, MissingPathsMessage}

\* the configuration error notifications flashed so far, over all invocations
ConfigFlashes ==
    { ik \in Invocations \X (1..4) :
        /\ ik[2] \in CallsOf(ik[1], "flashNotification")
        /\ inv[ik[1]].trace[ik[2]].info \in ConfigMessages }

\* C17: over all invocations of the process, at most one configuration error
\* notification is flashed
C17_ConfigErrorOnce == Cardinality(ConfigFlashes) <= 1

-----------------------------------------------------------------------------
(* C18 *)

\* a path setting is missing
Missing(v) == v.type = "undefined" \/ (v.type = "string" /\ v.value = <<>>)

\* the settings lack a path or fail the schema
BadSettings ==
    \/ ~SchemaAccepts(settings)
    \/ Missing(settings.meetingNoteTemplatePath)
    \/ Missing(settings.meetingNoteBasePath)

\* C18: with a path missing or the settings failing the schema, an
\* invocation reports the error and returns without reading the template,
\* prompting, parsing, checking for the note or writing
C18_ConfigErrorAborts ==
    \A i \in Invocations :
        (BadSettings /\ inv[i].pc # "start") =>
            /\ inv[i].pc \in {"config", "done"}
            /\ \A name \in {"readPage", "prompt", "parseDateWithFormats",
                            "getPageMeta", "writePage"} : CallsOf(i, name) = {}
            /\ (inv[i].pc = "done" => Made(i, "flashNotification", MissingPathsMessage))

\* an invocation returned on settings that lack the base path, another on
\* settings that fail the schema
C18_Witness ==
    \E i \in Invocations :
        /\ inv[i].pc = "done"
        /\ BadSettings
        /\ (Missing(settings.meetingNoteBasePath) \/ ~SchemaAccepts(settings))
        /\ ~Missing(settings.meetingNoteTemplatePath)

-----------------------------------------------------------------------------
(* C19 *)

\* the number written by the digits of s, or -1 if s has another character
RECURSIVE NumberOf(_)
NumberOf(s) ==
    IF Len(s) = 0 THEN 0
    ELSE IF ~IsDigit(s[Len(s)]) \/ NumberOf(SubSeq(s, 1, Len(s) - 1)) < 0 THEN -1
    ELSE 10 * NumberOf(SubSeq(s, 1, Len(s) - 1)) + DigitVal(s[Len(s)])

\* ts is YYYY-MM-DD_HH-mm of the date d
IsTimestampOf(ts, d) ==
    /\ Len(ts) = 16
    /\ NumberOf(SubSeq(ts, 1, 4)) = d.year
    /\ ts[5] = "-"
    /\ NumberOf(SubSeq(ts, 6, 7)) = d.month
    /\ ts[8] = "-"
    /\ NumberOf(SubSeq(ts, 9, 10)) = d.day
    /\ ts[11] = "_"
    /\ NumberOf(SubSeq(ts, 12, 13)) = d.hour
    /\ ts[14] = "-"
    /\ NumberOf(SubSeq(ts, 15, 16)) = d.minute

\* path is base/timestamp - title for the date d
IsNotePath(path, base, d, cleanTitle) ==
    LET n == Len(base)
    IN /\ Len(path) = n + 1 + 16 + 3 + Len(cleanTitle)
       /\ SubSeq(path, 1, n) = base
       /\ path[n + 1] = "/"
       /\ IsTimestampOf(SubSeq(path, n + 2, n + 17), d)
       /\ SubSeq(path, n + 18, n + 20) = <<" ", "-", " ">>
       /\ SubSeq(path, n + 21, Len(path)) = cleanTitle

\* C19: every path handed to writePage is basePath/timestamp - title, the
\* timestamp written YYYY-MM-DD_HH-mm with four digits of year and two
\* zero-padded digits of month, day, hour and minute of the resolved date
C19_PathFormat ==
    \A i \in Invocations :
        (inv[i].pc = "writePage" \/ CallsOf(i, "writePage") # {}) =>
            IsNotePath(inv[i].notePath,
                       settings.meetingNoteBasePath.value,
                       inv[i].parsedDate,
                       meetingNote_sanitizeTitle(RawTitleOf(inv[i].userInput)))

\* a page was written whose date has a one-digit month and a one-digit day
C19_Witness ==
    \E w \in writes :
        /\ inv[w.inv].parsedDate.month < 10
        /\ inv[w.inv].parsedDate.day < 10
        /\ w.path = inv[w.inv].notePath

-----------------------------------------------------------------------------
(* C20 *)

\* the key the utils module gives for a typed text at the instant n, or
\* Undefined where its resolver rejects the token
UtilsKey(input, n) ==
    LET d == parseDateWithFormats(TokenOf(input), n, DateOf(n))
    IN IF d = Undefined THEN Undefined
       ELSE formatTimestamp(d) \o <<" ", "-", " ">> \o sanitizeTitle(RawTitleOf(input))

\* C20: for every typed text with a separator the orchestrator rejects the
\* token exactly when the resolver of the utils module does, and otherwise
\* builds the key formatTimestamp(Resolver(token, now)) - Normalizer(title)
C20_AgreesWithUtils ==
    \A i \in Invocations :
        (Typed(i) /\ HasSeparator(inv[i].userInput)) =>
            IF UtilsKey(inv[i].userInput, now) = Undefined
            THEN Made(i, "parseDateWithFormats", "undefined")
            ELSE inv[i].notePath =
                     BasePath \o <<"/">> \o UtilsKey(inv[i].userInput, now)

-----------------------------------------------------------------------------
(* C21 *)

\* C21: in the orchestrator a day-bearing token whose day-of-month has
\* passed in the current month gives that day-of-month of the next month at
\* the written time
C21_PassedDayNextMonth ==
    \A i \in Invocations :
        (/\ Made(i, "parseDateWithFormats", "date")
         /\ IsDayToken(TokenOf(inv[i].userInput))
         /\ WrittenDay(TokenOf(inv[i].userInput)) < now.day) =>
            LET t == TokenOf(inv[i].userInput)
                m == MonthAfter(now.year, now.month)
            IN inv[i].parsedDate =
                   Stamp(m.year, m.month, WrittenDay(t), WrittenHour(t), WrittenMinute(t), 0, 0)

-----------------------------------------------------------------------------
(* C22 *)

\* the text has a whitespace character
HasWhitespace(s) == \E k \in 1..Len(s) : IsSpace(s[k])

\* C22: the trimmed input is split at its first whitespace character; it is
\* rejected with 'Please enter both a date and a title.' only when it has no
\* whitespace at all, and otherwise its token goes to the parser
C22_SplitAtWhitespace ==
    \A i \in Invocations :
        Typed(i) =>
            IF HasWhitespace(Trim(inv[i].userInput))
            THEN /\ ~Made(i, "flashNotification", InputErrorMessage)
                 /\ CallsOf(i, "parseDateWithFormats") # {}
            ELSE Made(i, "flashNotification", InputErrorMessage)

-----------------------------------------------------------------------------
(* C23 *)

\* the day-bearing token names now's own day-of-month, hour and minute
NamesNow(t, n) ==
    /\ IsDayToken(t)
    /\ WrittenDay(t) = n.day
    /\ WrittenHour(t) = n.hour
    /\ WrittenMinute(t) = n.minute

\* C23: whatever the seconds and milliseconds of now, a day-bearing token
\* that names now's day-of-month, hour and minute resolves to now's date at
\* that hour and minute and is not rolled to the next month
C23_OwnMinuteKept ==
    (pc = "resolved" /\ NamesNow(token, now)) =>
        /\ parsed # Undefined
        /\ <<parsed.year, parsed.month, parsed.day, parsed.hour, parsed.minute>>
               = <<now.year, now.month, now.day, now.hour, now.minute>>

-----------------------------------------------------------------------------
(* C24 *)

\* positions of the letters and digits of s, in order
RECURSIVE AlnumsFrom(_, _)
AlnumsFrom(s, i) ==
    IF i > Len(s) THEN <<>>
    ELSE IF IsAlnum(s[i]) THEN <<i>> \o AlnumsFrom(s, i + 1)
    ELSE AlnumsFrom(s, i + 1)

Alnums(s) == AlnumsFrom(s, 1)

\* the raw title behind a stripped leading prefix
Unprefixed(s) == SubSeq(s, PrefixLen(s) + 1, Len(s))

\* the k-th and the next letter or digit of s have exactly one character
\* between them, which is neither a letter, a digit nor whitespace
JoinedBySpecial(s, k) ==
    LET a == Alnums(s)
    IN /\ k + 1 <= Len(a)
       /\ a[k + 1] = a[k] + 2
       /\ ~IsSpace(s[a[k] + 1])

\* the k-th and the next letter or digit of s have exactly a hyphen between
JoinedByHyphen(s, k) ==
    LET a == Alnums(s)
    IN /\ k + 1 <= Len(a)
       /\ a[k + 1] = a[k] + 2
       /\ s[a[k] + 1] = "-"

-----------------------------------------------------------------------------
(* C25 *)

\* C25: the output of the orchestrator's sanitizeTitle has every hyphen
\* between exactly one space before and exactly one space after, and neither
\* begins nor ends with a space or a hyphen
C25_NoteTitleWellFormed ==
    pc = "noteSanitized" =>
        /\ \A i \in HyphensOf(sanitized) : HyphenSpaced(sanitized, i)
        /\ (Len(sanitized) > 0 =>
               /\ ~IsSpaceOrHyphen(sanitized[1])
               /\ ~IsSpaceOrHyphen(sanitized[Len(sanitized)]))

-----------------------------------------------------------------------------
(* C26 *)

\* C26: when parseDateWithFormats returns a timestamp R, the day-bearing
\* token 'DD_HH-mm' built from R's day-of-month, hour and minute resolves,
\* against the same now, to R again
C26_ResolveIdempotent == pc = "reresolved" => reparsed = parsed

-----------------------------------------------------------------------------
(* C27 *)

\* C27: when getPageMeta fails, noteExists reports the note absent and the
\* invocation goes on to writePage: it does not flash 'Note already exists!'
\* and does not end without a writePage call
C27_MetaFailureGoesOn ==
    \A i \in Invocations :
        Made(i, "getPageMeta", "throws") =>
            /\ inv[i].pc \in {"writePage", "done"}
            /\ ~Made(i, "flashNotification", DuplicateMessage)
            /\ (inv[i].pc = "done" => CallsOf(i, "writePage") # {})

\* getPageMeta failed and the invocation wrote the page
C27_Witness ==
    \E i \in Invocations :
        /\ Made(i, "getPageMeta", "throws")
        /\ inv[i].pc = "done"
        /\ Made(i, "writePage", "ok")

-----------------------------------------------------------------------------
(* C28 *)

\* the title part of the key: what follows basePath/timestamp - in the path
KeyTitle(path) == SubSeq(path, Len(BasePath) + 21, Len(path))

\* C28: every path handed to writePage has a non-empty title behind the
\* ' - ' separator
C28_TitleNotEmpty ==
    \A i \in Invocations :
        CallsOf(i, "writePage") # {} => Len(KeyTitle(inv[i].notePath)) > 0

-----------------------------------------------------------------------------
(* C29 *)

\* C29: a failed template read flashes 'Failed to read template content' and
\* the invocation returns without prompting; a cancelled prompt flashes
\* nothing and is followed by neither getPageMeta nor writePage
C29_TemplateFailureAndCancel ==
    \A i \in Invocations :
        /\ Made(i, "readPage", "throws") =>
               /\ inv[i].pc = "done"
               /\ Made(i, "flashNotification", TemplateErrorMessage)
               /\ CallsOf(i, "prompt") = {}
               /\ CallsOf(i, "getPageMeta") = {}
               /\ CallsOf(i, "writePage") = {}
        /\ Made(i, "prompt", "cancelled") =>
               /\ inv[i].pc = "done"
               /\ CallsOf(i, "flashNotification") = {}
               /\ CallsOf(i, "getPageMeta") = {}
               /\ CallsOf(i, "writePage") = {}

\* one invocation failed to read the template, another was cancelled
C29_Witness ==
    \E i, j \in Invocations :
        /\ Made(i, "readPage", "throws") /\ inv[i].pc = "done"
        /\ Made(j, "prompt", "cancelled") /\ inv[j].pc = "done"

-----------------------------------------------------------------------------
(* C30 *)

\* the candidate the day branch builds for the token while the wall clock
\* shows w, Undefined when the token does not reach the day branch
CandidateOf(t, n, w) ==
    LET str == preprocessDateStr(t)
        d1  == StrictParse(str, formats[1], w)
        d2  == StrictParse(str, formats[2], w)
        d3  == StrictParse(str, formats[3], w)
    IN IF str = <<>> \/ ~Includes(str, "_") THEN Undefined
       ELSE IF IsValid(d1) THEN DayCandidate(d1, n)
       ELSE IF IsValid(d2) THEN DayCandidate(d2, n)
       ELSE IF IsValid(d3) THEN DayCandidate(d3, n)
       ELSE Undefined

\* C30: whenever the day-bearing candidate is before now its month is now's
\* month, so the subtract-one-month branch is never taken
C30_NoSubtractBranch ==
    pc = "resolved" =>
        LET cand == CandidateOf(token, now, wall)
        IN (cand # Undefined /\ IsBefore(cand, now)) => cand.month = now.month

\* a candidate that overflowed into the following month, and is not before now
C30_Witness ==
    /\ pc = "resolved"
    /\ LET cand == CandidateOf(token, now, wall)
       IN /\ cand # Undefined
          /\ cand.month # now.month
          /\ ~IsBefore(cand, now)
          /\ parsed = cand

====
